---- MODULE Spec2Model ----
(***************************************************************************)
(* Model of the room registry of Kamzyled/Now (src/src/routes.rs): the     *)
(* process-wide map code -> Room behind a readers-writer lock, and the     *)
(* request handlers create_room_post, join_room_post, play_get and         *)
(* result_get running on concurrent worker tasks.                          *)
(***************************************************************************)
EXTENDS Integers, Sequences, FiniteSets, TLC

(* ------------------------------ bounds --------------------------------- *)
NumTasks == 2
MaxRequests == 4

Tasks == 1..NumTasks

Names == {"Ada", "Grace"}

(* ------------------------------ characters ----------------------------- *)
LowerCase == <<"a","b","c","d","e","f","g","h","i","j","k","l","m",
               "n","o","p","q","r","s","t","u","v","w","x","y","z">>
UpperCase == <<"A","B","C","D","E","F","G","H","I","J","K","L","M",
               "N","O","P","Q","R","S","T","U","V","W","X","Y","Z">>
Digits == <<"0","1","2","3","4","5","6","7","8","9">>

Range(s) == {s[i] : i \in DOMAIN s}

is_ascii_alphanumeric(c) ==
    c \in Range(LowerCase) \cup Range(UpperCase) \cup Range(Digits)

\* variant: the character is kept as drawn (no to_uppercase)
to_uppercase_char_id(c) == c

to_uppercase_char(c) ==
    IF c \in Range(LowerCase)
    THEN UpperCase[CHOOSE i \in DOMAIN LowerCase : LowerCase[i] = c]
    ELSE c

to_uppercase(s) == [i \in DOMAIN s |-> to_uppercase_char(s[i])]

CODE_LEN == 6

Take(s, n) == SubSeq(s, 1, IF Len(s) < n THEN Len(s) ELSE n)

(* generate_code applied to the stream of characters the random source     *)
(* yields: filter, take 6, collect, uppercase.                             *)
generate_code(stream) ==
    to_uppercase(Take(SelectSeq(stream, is_ascii_alphanumeric), CODE_LEN))

(* Outcomes of the random source used by the registry model: two distinct  *)
(* streams give the same code, a third gives another code.                 *)
RawSamples == { <<"a","9","k","4","z","t">>,
                <<"A","9","K","4","Z","T">>,
                <<"b","2","C","3","d","4">> }

(* Characters of the random source used to enumerate whole streams: a     *)
(* lowercase letter, an uppercase letter and a digit.                      *)
StreamChars == {"a", "Z", "7"}

Streams == [1..CODE_LEN -> StreamChars]

GenCodes == {generate_code(r) : r \in RawSamples}

(* Codes a client may type into the join form or a play/result URL.        *)
FormCodes == GenCodes \cup { <<"Z","Z","Z","Z","Z","Z">> }

(* ------------------------------ models --------------------------------- *)
Player(id, name) == [id |-> id, name |-> name, score |-> 0]

\* variant: the host is left out of the new room (players: vec![])
Room_empty(code, host) ==
    [code |-> code, players |-> <<>>, current_question_index |-> 0]

Room(code, host) ==
    [code |-> code, players |-> <<host>>, current_question_index |-> 0]

NoForm == [kind |-> "none"]
NoRoom == [kind |-> "none"]
NoCode == <<>>
NoResult == [kind |-> "none"]

RedirectJoin(code) == [kind |-> "redirect", to |-> "join", code |-> code]
RedirectPlay(code) == [kind |-> "redirect", to |-> "play", code |-> code]
BadRequest == [kind |-> "err", status |-> "BadRequest"]
CodeGenerationExhausted == [kind |-> "err", status |-> "CodeGenerationExhausted"]

VARIABLES
    rooms,      \* APP_STATE.rooms: the map code -> Room
    writers,    \* tasks holding the RwLock in write mode
    readers,    \* tasks holding the RwLock in read mode
    pc,         \* position of each task in its handler
    form,       \* the request data of each task
    code,       \* create_room_post's local `code`
    room,       \* create_room_post's local `room`
    result,     \* the handler's return value
    nextId,     \* source of fresh player identifiers
    started     \* number of requests started so far

vars == <<rooms, writers, readers, pc, form, code, room, result, nextId, started>>

(* ------------------------------ the lock ------------------------------- *)
\* variant: write() granted without waiting for the current holder
CanWrite_unguarded == TRUE

CanWrite == writers = {} /\ readers = {}

\* variant: read() granted while a writer holds the lock
CanRead_unguarded == TRUE

CanRead == writers = {}

(* ------------------------------ map helpers ---------------------------- *)
\* variant: entry(k).or_insert(v), an existing entry is kept
MapInsert_keep(map, k, v) ==
    [c \in (DOMAIN map) \cup {k} |-> IF c \in DOMAIN map THEN map[c] ELSE v]

MapInsert(map, k, v) ==
    [c \in (DOMAIN map) \cup {k} |-> IF c = k THEN v ELSE map[c]]

ContainsKey(map, k) == k \in DOMAIN map

\* map.get(&code): Some(room) or None
MapGet(map, k) == IF ContainsKey(map, k) THEN map[k] ELSE NoRoom

\* variant: capacity test off by one (> instead of >=)
RoomIsFull_gt(r) == Len(r.players) > 2

RoomIsFull(r) == Len(r.players) >= 2

Init ==
    /\ rooms = <<>>
    /\ writers = {}
    /\ readers = {}
    /\ pc = [t \in Tasks |-> "idle"]
    /\ form = [t \in Tasks |-> NoForm]
    /\ code = [t \in Tasks |-> NoCode]
    /\ room = [t \in Tasks |-> NoRoom]
    /\ result = [t \in Tasks |-> NoResult]
    /\ nextId = 1
    /\ started = 0

(* ------------------------------ create_room_post ----------------------- *)
\* variant: the room's code field comes from a second generate_code() call
StartCreate_recode(t) ==
    /\ pc[t] = "idle"
    /\ started < MaxRequests
    /\ \E host_name \in Names, stream \in RawSamples, stream2 \in RawSamples :
          LET c == generate_code(stream)
              host == Player(nextId, host_name)
          IN /\ form' = [form EXCEPT ![t] = [kind |-> "create", host_name |-> host_name]]
             /\ code' = [code EXCEPT ![t] = c]
             /\ room' = [room EXCEPT ![t] = Room(generate_code(stream2), host)]
    /\ nextId' = nextId + 1
    /\ started' = started + 1
    /\ pc' = [pc EXCEPT ![t] = "create_lock"]
    /\ UNCHANGED <<rooms, writers, readers, result>>

StartCreate(t) ==
    /\ pc[t] = "idle"
    /\ started < MaxRequests
    /\ \E host_name \in Names, stream \in RawSamples :
          LET c == generate_code(stream)
              host == Player(nextId, host_name)
          IN /\ form' = [form EXCEPT ![t] = [kind |-> "create", host_name |-> host_name]]
             /\ code' = [code EXCEPT ![t] = c]
             /\ room' = [room EXCEPT ![t] = Room(c, host)]
    /\ nextId' = nextId + 1
    /\ started' = started + 1
    /\ pc' = [pc EXCEPT ![t] = "create_lock"]
    /\ UNCHANGED <<rooms, writers, readers, result>>

CreateAcquire(t) ==
    /\ pc[t] = "create_lock"
    /\ CanWrite
    /\ writers' = writers \cup {t}
    /\ pc' = [pc EXCEPT ![t] = "create_insert"]
    /\ UNCHANGED <<rooms, readers, form, code, room, result, nextId, started>>

\* variant: the map is rebuilt from the new entry alone
CreateInsert_reset(t) ==
    /\ pc[t] = "create_insert"
    /\ rooms' = MapInsert(<<>>, code[t], room[t])
    /\ pc' = [pc EXCEPT ![t] = "create_unlock"]
    /\ UNCHANGED <<writers, readers, form, code, room, result, nextId, started>>

CreateInsert(t) ==
    /\ pc[t] = "create_insert"
    /\ rooms' = MapInsert(rooms, code[t], room[t])
    /\ pc' = [pc EXCEPT ![t] = "create_unlock"]
    /\ UNCHANGED <<writers, readers, form, code, room, result, nextId, started>>

CreateRelease(t) ==
    /\ pc[t] = "create_unlock"
    /\ writers' = writers \ {t}
    /\ result' = [result EXCEPT ![t] = RedirectJoin(code[t])]
    /\ pc' = [pc EXCEPT ![t] = "done"]
    /\ UNCHANGED <<rooms, readers, form, code, room, nextId, started>>

(* ------------------------------ join_room_post ------------------------- *)
StartJoin(t) ==
    /\ pc[t] = "idle"
    /\ started < MaxRequests
    /\ \E c \in FormCodes, name \in Names :
          form' = [form EXCEPT ![t] = [kind |-> "join", code |-> c, name |-> name]]
    /\ started' = started + 1
    /\ pc' = [pc EXCEPT ![t] = "join_lock"]
    /\ UNCHANGED <<rooms, writers, readers, code, room, result, nextId>>

JoinAcquire(t) ==
    /\ pc[t] = "join_lock"
    /\ CanWrite
    /\ writers' = writers \cup {t}
    /\ pc' = [pc EXCEPT ![t] = "join_lookup"]
    /\ UNCHANGED <<rooms, readers, form, code, room, result, nextId, started>>

JoinFound(t) ==
    /\ pc[t] = "join_lookup"
    /\ ContainsKey(rooms, form[t].code)
    /\ pc' = [pc EXCEPT ![t] = "join_check"]
    /\ UNCHANGED <<rooms, writers, readers, form, code, room, result, nextId, started>>

\* variant: an absent code is created on the fly (entry().or_insert_with)
JoinNotFound_upsert(t) ==
    /\ pc[t] = "join_lookup"
    /\ ~ContainsKey(rooms, form[t].code)
    /\ rooms' = MapInsert(rooms, form[t].code,
                          Room(form[t].code, Player(nextId, form[t].name)))
    /\ result' = [result EXCEPT ![t] = RedirectJoin(form[t].code)]
    /\ writers' = writers \ {t}
    /\ pc' = [pc EXCEPT ![t] = "done"]
    /\ UNCHANGED <<readers, form, code, room, nextId, started>>

JoinNotFound(t) ==
    /\ pc[t] = "join_lookup"
    /\ ~ContainsKey(rooms, form[t].code)
    /\ result' = [result EXCEPT ![t] = RedirectJoin(form[t].code)]
    /\ writers' = writers \ {t}
    /\ pc' = [pc EXCEPT ![t] = "done"]
    /\ UNCHANGED <<rooms, readers, form, code, room, nextId, started>>

\* variant: the early return leaves the write guard held
JoinFull_keeplock(t) ==
    /\ pc[t] = "join_check"
    /\ RoomIsFull(rooms[form[t].code])
    /\ result' = [result EXCEPT ![t] = BadRequest]
    /\ pc' = [pc EXCEPT ![t] = "done"]
    /\ UNCHANGED <<rooms, writers, readers, form, code, room, nextId, started>>

\* variant: a full room is reported like an absent one (redirect to /join)
JoinFull_redirect(t) ==
    /\ pc[t] = "join_check"
    /\ RoomIsFull(rooms[form[t].code])
    /\ result' = [result EXCEPT ![t] = RedirectJoin(form[t].code)]
    /\ writers' = writers \ {t}
    /\ pc' = [pc EXCEPT ![t] = "done"]
    /\ UNCHANGED <<rooms, readers, form, code, room, nextId, started>>

\* variant: the player is pushed before the capacity test rejects the join
JoinFull_pushfirst(t) ==
    /\ pc[t] = "join_check"
    /\ RoomIsFull(rooms[form[t].code])
    /\ rooms' = [rooms EXCEPT ![form[t].code].players =
                    Append(@, Player(nextId, form[t].name))]
    /\ result' = [result EXCEPT ![t] = BadRequest]
    /\ writers' = writers \ {t}
    /\ pc' = [pc EXCEPT ![t] = "done"]
    /\ UNCHANGED <<readers, form, code, room, nextId, started>>

JoinFull(t) ==
    /\ pc[t] = "join_check"
    /\ RoomIsFull(rooms[form[t].code])
    /\ result' = [result EXCEPT ![t] = BadRequest]
    /\ writers' = writers \ {t}
    /\ pc' = [pc EXCEPT ![t] = "done"]
    /\ UNCHANGED <<rooms, readers, form, code, room, nextId, started>>

\* variant: the new player is inserted at the front (insert(0, p))
JoinPush_front(t) ==
    /\ pc[t] = "join_check"
    /\ ~RoomIsFull(rooms[form[t].code])
    /\ LET p == Player(nextId, form[t].name)
       IN rooms' = [rooms EXCEPT ![form[t].code].players = <<p>> \o @]
    /\ nextId' = nextId + 1
    /\ pc' = [pc EXCEPT ![t] = "join_ok"]
    /\ UNCHANGED <<writers, readers, form, code, room, result, started>>

JoinPush(t) ==
    /\ pc[t] = "join_check"
    /\ ~RoomIsFull(rooms[form[t].code])
    /\ LET p == Player(nextId, form[t].name)
       IN rooms' = [rooms EXCEPT ![form[t].code].players = Append(@, p)]
    /\ nextId' = nextId + 1
    /\ pc' = [pc EXCEPT ![t] = "join_ok"]
    /\ UNCHANGED <<writers, readers, form, code, room, result, started>>

JoinOk(t) ==
    /\ pc[t] = "join_ok"
    /\ result' = [result EXCEPT ![t] = RedirectPlay(form[t].code)]
    /\ writers' = writers \ {t}
    /\ pc' = [pc EXCEPT ![t] = "done"]
    /\ UNCHANGED <<rooms, readers, form, code, room, nextId, started>>

(* ------------------------------ play_get ------------------------------ *)
PlayTemplate(c, players, placeholder) ==
    [kind |-> "template", name |-> "play", code |-> c,
     players |-> players, question_placeholder |-> placeholder]

PlayerNames(r) == [i \in DOMAIN r.players |-> r.players[i].name]

PlayView(map, c) ==
    LET maybe_room == MapGet(map, c)
    IN IF maybe_room # NoRoom
       THEN PlayTemplate(maybe_room.code, PlayerNames(maybe_room), "Questions loading soon")
       ELSE PlayTemplate(c, <<>>, "Room not found.")

StartPlay(t) ==
    /\ pc[t] = "idle"
    /\ started < MaxRequests
    /\ \E c \in FormCodes :
          form' = [form EXCEPT ![t] = [kind |-> "play", code |-> c]]
    /\ started' = started + 1
    /\ pc' = [pc EXCEPT ![t] = "play_lock"]
    /\ UNCHANGED <<rooms, writers, readers, code, room, result, nextId>>

PlayAcquire(t) ==
    /\ pc[t] = "play_lock"
    /\ CanRead
    /\ readers' = readers \cup {t}
    /\ pc' = [pc EXCEPT ![t] = "play_render"]
    /\ UNCHANGED <<rooms, writers, form, code, room, result, nextId, started>>

\* variant: the lookup goes through entry(code).or_insert_with(..), which
\* stores an empty room for an absent code
PlayRender_entry(t) ==
    /\ pc[t] = "play_render"
    /\ result' = [result EXCEPT ![t] = PlayView(rooms, form[t].code)]
    /\ rooms' = IF ContainsKey(rooms, form[t].code) THEN rooms
                ELSE MapInsert(rooms, form[t].code,
                               [code |-> form[t].code, players |-> <<>>,
                                current_question_index |-> 0])
    /\ readers' = readers \ {t}
    /\ pc' = [pc EXCEPT ![t] = "done"]
    /\ UNCHANGED <<writers, form, code, room, nextId, started>>

PlayRender(t) ==
    /\ pc[t] = "play_render"
    /\ result' = [result EXCEPT ![t] = PlayView(rooms, form[t].code)]
    /\ readers' = readers \ {t}
    /\ pc' = [pc EXCEPT ![t] = "done"]
    /\ UNCHANGED <<rooms, writers, form, code, room, nextId, started>>

(* ------------------------------ result_get ----------------------------- *)
ResultTemplate(c, score, message) ==
    [kind |-> "template", name |-> "result", code |-> c,
     score |-> score, message |-> message]

\* players.len() as u32 * 42 cannot wrap for the lengths a room reaches.
\* variant: multiplier 43 instead of 42
Score_43(r) == (Len(r.players) * 43) % 100

Score(r) == (Len(r.players) * 42) % 100

Message(score) ==
    IF score >= 85 THEN "Perfect Match"
    ELSE IF score >= 60 THEN "Good Match"
    ELSE "Nice Try"

ResultView(map, c) ==
    LET maybe_room == MapGet(map, c)
    IN IF maybe_room # NoRoom
       THEN ResultTemplate(c, Score(maybe_room), Message(Score(maybe_room)))
       ELSE ResultTemplate(c, 0, "Room not found.")

StartResult(t) ==
    /\ pc[t] = "idle"
    /\ started < MaxRequests
    /\ \E c \in FormCodes :
          form' = [form EXCEPT ![t] = [kind |-> "result", code |-> c]]
    /\ started' = started + 1
    /\ pc' = [pc EXCEPT ![t] = "result_lock"]
    /\ UNCHANGED <<rooms, writers, readers, code, room, result, nextId>>

ResultAcquire(t) ==
    /\ pc[t] = "result_lock"
    /\ CanRead
    /\ readers' = readers \cup {t}
    /\ pc' = [pc EXCEPT ![t] = "result_render"]
    /\ UNCHANGED <<rooms, writers, form, code, room, result, nextId, started>>

ResultRender(t) ==
    /\ pc[t] = "result_render"
    /\ result' = [result EXCEPT ![t] = ResultView(rooms, form[t].code)]
    /\ readers' = readers \ {t}
    /\ pc' = [pc EXCEPT ![t] = "done"]
    /\ UNCHANGED <<rooms, writers, form, code, room, nextId, started>>

(* ------------------------------ response ------------------------------- *)
Respond(t) ==
    /\ pc[t] = "done"
    /\ pc' = [pc EXCEPT ![t] = "idle"]
    /\ form' = [form EXCEPT ![t] = NoForm]
    /\ code' = [code EXCEPT ![t] = NoCode]
    /\ room' = [room EXCEPT ![t] = NoRoom]
    /\ result' = [result EXCEPT ![t] = NoResult]
    /\ UNCHANGED <<rooms, writers, readers, nextId, started>>

Next ==
    \E t \in Tasks :
        \/ StartCreate(t)
        \/ CreateAcquire(t)
        \/ CreateInsert(t)
        \/ CreateRelease(t)
        \/ StartJoin(t)
        \/ JoinAcquire(t)
        \/ JoinFound(t)
        \/ JoinNotFound(t)
        \/ JoinFull(t)
        \/ JoinPush(t)
        \/ JoinOk(t)
        \/ StartPlay(t)
        \/ PlayAcquire(t)
        \/ PlayRender(t)
        \/ StartResult(t)
        \/ ResultAcquire(t)
        \/ ResultRender(t)
        \/ Respond(t)

Spec == Init /\ [][Next]_vars

(* The code generator alone: task 1 holds a stream of the random source    *)
(* and applies generate_code to it.                                        *)
GenerateCode(t) ==
    /\ pc[t] = "generate"
    /\ code' = [code EXCEPT ![t] = generate_code(form[t].stream)]
    /\ pc' = [pc EXCEPT ![t] = "generated"]
    /\ UNCHANGED <<rooms, writers, readers, form, room, result, nextId, started>>

GenInit ==
    /\ rooms = <<>>
    /\ writers = {}
    /\ readers = {}
    /\ pc = [t \in Tasks |-> IF t = 1 THEN "generate" ELSE "idle"]
    /\ \E stream \in Streams :
          form = [t \in Tasks |->
                    IF t = 1 THEN [kind |-> "generate", stream |-> stream] ELSE NoForm]
    /\ code = [t \in Tasks |-> NoCode]
    /\ room = [t \in Tasks |-> NoRoom]
    /\ result = [t \in Tasks |-> NoResult]
    /\ nextId = 1
    /\ started = 0

GenNext == \E t \in Tasks : GenerateCode(t)

GenSpec == GenInit /\ [][GenNext]_vars

(* Every task has received one request and runs its handler to the end,    *)
(* against a registry that holds a 1-player room and a full room. Each     *)
(* worker thread keeps being scheduled: a handler step that stays enabled  *)
(* is eventually taken.                                                    *)
LiveCode1 == CHOOSE c \in GenCodes : TRUE
LiveCode2 == CHOOSE c \in GenCodes : c # LiveCode1

LiveRooms ==
    MapInsert(MapInsert(<<>>, LiveCode1, Room(LiveCode1, Player(1, "Ada"))),
              LiveCode2,
              [Room(LiveCode2, Player(2, "Ada")) EXCEPT
                  !.players = Append(@, Player(3, "Grace"))])

LiveRequests(t) ==
    {[pc |-> "create_lock", form |-> [kind |-> "create", host_name |-> "Grace"],
      code |-> c, room |-> Room(c, Player(3 + t, "Grace"))] : c \in GenCodes}
    \cup
    {[pc |-> "join_lock", form |-> [kind |-> "join", code |-> c, name |-> "Grace"],
      code |-> NoCode, room |-> NoRoom] : c \in FormCodes}
    \cup
    {[pc |-> "play_lock", form |-> [kind |-> "play", code |-> c],
      code |-> NoCode, room |-> NoRoom] : c \in FormCodes}
    \cup
    {[pc |-> "result_lock", form |-> [kind |-> "result", code |-> c],
      code |-> NoCode, room |-> NoRoom] : c \in FormCodes}

LiveInit ==
    /\ rooms = LiveRooms
    /\ writers = {}
    /\ readers = {}
    /\ \E req \in [Tasks -> UNION {LiveRequests(t) : t \in Tasks}] :
          /\ \A t \in Tasks : req[t] \in LiveRequests(t)
          /\ pc = [t \in Tasks |-> req[t].pc]
          /\ form = [t \in Tasks |-> req[t].form]
          /\ code = [t \in Tasks |-> req[t].code]
          /\ room = [t \in Tasks |-> req[t].room]
    /\ result = [t \in Tasks |-> NoResult]
    /\ nextId = 4 + NumTasks
    /\ started = 3 + NumTasks

LiveStep(t) ==
    \/ CreateAcquire(t)
    \/ CreateInsert(t)
    \/ CreateRelease(t)
    \/ JoinAcquire(t)
    \/ JoinFound(t)
    \/ JoinNotFound(t)
    \/ JoinFull(t)
    \/ JoinPush(t)
    \/ JoinOk(t)
    \/ PlayAcquire(t)
    \/ PlayRender(t)
    \/ ResultAcquire(t)
    \/ ResultRender(t)

LiveNext == \E t \in Tasks : LiveStep(t)

LiveSpec ==
    /\ LiveInit
    /\ [][LiveNext]_vars
    /\ \A t \in Tasks : WF_vars(LiveStep(t))

(* A room with one player and every task about to join it: the state after *)
(* one create and NumTasks submitted join forms for the created code.     *)
JoinRaceInit ==
    /\ \E c \in GenCodes, host_name \in Names :
          rooms = MapInsert(<<>>, c, Room(c, Player(1, host_name)))
    /\ writers = {}
    /\ readers = {}
    /\ pc = [t \in Tasks |-> "join_lock"]
    /\ \E names \in [Tasks -> Names] :
          form = [t \in Tasks |->
                    [kind |-> "join",
                     code |-> CHOOSE c \in DOMAIN rooms : TRUE,
                     name |-> names[t]]]
    /\ code = [t \in Tasks |-> NoCode]
    /\ room = [t \in Tasks |-> NoRoom]
    /\ result = [t \in Tasks |-> NoResult]
    /\ nextId = 2
    /\ started = NumTasks + 1

JoinRaceNext ==
    \E t \in Tasks :
        \/ JoinAcquire(t)
        \/ JoinFound(t)
        \/ JoinFull(t)
        \/ JoinPush(t)
        \/ JoinOk(t)

JoinRaceSpec == JoinRaceInit /\ [][JoinRaceNext]_vars

(* ============================== properties ============================= *)

IsJoin(t) == form[t].kind = "join"
IsCreate(t) == form[t].kind = "create"

\* C1: every room stored in the registry holds at most 2 players, in every
\* reachable state of any interleaving of create, join, play and result.
C1_AtMostTwoPlayers ==
    \A c \in DOMAIN rooms : Len(rooms[c].players) <= 2

\* a full room against which a further join has been refused
C1_Witness ==
    \E t \in Tasks :
        /\ pc[t] = "done" /\ IsJoin(t) /\ result[t] = BadRequest
        /\ Len(rooms[form[t].code].players) = 2

InJoinSection(t) == pc[t] \in {"join_lookup", "join_check", "join_ok"}

\* C2: with all tasks joining the same 1-player room, at most one task is
\* ever between its lookup and its append/return, never more than one join
\* has succeeded, and once all have returned exactly one got the redirect to
\* play, all others got the RoomFull error, and the room has 2 players.
C2_JoinRaceExactlyOne ==
    LET c == CHOOSE k \in DOMAIN rooms : TRUE
        won == {t \in Tasks : pc[t] = "done" /\ result[t] = RedirectPlay(c)}
        lost == {t \in Tasks : pc[t] = "done" /\ result[t] = BadRequest}
    IN /\ Cardinality({t \in Tasks : InJoinSection(t)}) <= 1
       /\ Cardinality(won) <= 1
       /\ (\A t \in Tasks : pc[t] = "done") =>
             /\ Cardinality(won) = 1
             /\ Cardinality(lost) = NumTasks - 1
             /\ Len(rooms[c].players) = 2

\* every join of the race has returned
C2_Witness ==
    /\ \A t \in Tasks : pc[t] = "done" /\ IsJoin(t)
    /\ \E t \in Tasks : result[t] = BadRequest
    /\ \E t \in Tasks : result[t].kind = "redirect"

CreateInserts(t) == pc[t] = "create_insert" /\ pc'[t] = "create_unlock"

\* C3 (as claimed): a create commits only under a code that is not a key,
\* and every room present before the insert is present with the same
\* players after it.
C3_CreateKeepsRooms ==
    [][\A t \in Tasks :
         CreateInserts(t) =>
            /\ ~ContainsKey(rooms, code[t])
            /\ \A c \in DOMAIN rooms :
                  ContainsKey(rooms', c) /\ rooms'[c].players = rooms[c].players]_vars

\* C4: a join that finds its code absent from the registry returns the
\* not-found outcome (redirect back to the join page) and, from its lookup
\* to its return, the registry is unchanged.
C4_JoinAbsent ==
    [][\A t \in Tasks :
         (pc[t] = "join_lookup" /\ ~ContainsKey(rooms, form[t].code)) =>
            /\ rooms' = rooms
            /\ \/ pc'[t] = "join_lookup" /\ result'[t] = NoResult
               \/ pc'[t] = "done" /\ result'[t] = RedirectJoin(form[t].code)]_vars

\* a join of an absent code has returned while the registry holds a room
C4_Witness ==
    \E t \in Tasks :
        /\ pc[t] = "done" /\ IsJoin(t)
        /\ result[t] = RedirectJoin(form[t].code)
        /\ ~ContainsKey(rooms, form[t].code)
        /\ DOMAIN rooms # {}

\* C5: a join that finds its room holding 2 players returns the RoomFull
\* error and, from its lookup to its return, the registry (that room and
\* every other) is unchanged.
C5_JoinFullNoMutation ==
    [][\A t \in Tasks :
         (/\ pc[t] \in {"join_lookup", "join_check"}
          /\ ContainsKey(rooms, form[t].code)
          /\ Len(rooms[form[t].code].players) >= 2) =>
            /\ rooms' = rooms
            /\ \/ pc'[t] \in {"join_lookup", "join_check"} /\ result'[t] = NoResult
               \/ pc'[t] = "done" /\ result'[t] = BadRequest]_vars

\* a join has been refused by a room that holds 2 players of different
\* names
C5_Witness ==
    \E t \in Tasks :
        /\ pc[t] = "done" /\ IsJoin(t) /\ result[t] = BadRequest
        /\ ContainsKey(rooms, form[t].code)
        /\ Len(rooms[form[t].code].players) = 2
        /\ rooms[form[t].code].players[1].name # rooms[form[t].code].players[2].name

\* C6: a join that finds its room holding exactly 1 player appends exactly
\* one player (given name, score 0) after the host, leaves the host entry,
\* the room's code and question index and every other room unchanged, and
\* returns the redirect to play.
C6_JoinAppends ==
    [][\A t \in Tasks :
         LET c == form[t].code IN
         /\ (/\ pc[t] \in {"join_lookup", "join_check"}
             /\ ContainsKey(rooms, c)
             /\ Len(rooms[c].players) = 1) =>
               \/ pc'[t] \in {"join_lookup", "join_check"} /\ rooms' = rooms
               \/ /\ pc'[t] = "join_ok"
                  /\ DOMAIN rooms' = DOMAIN rooms
                  /\ \A k \in DOMAIN rooms \ {c} : rooms'[k] = rooms[k]
                  /\ rooms'[c].code = rooms[c].code
                  /\ rooms'[c].current_question_index = rooms[c].current_question_index
                  /\ Len(rooms'[c].players) = 2
                  /\ rooms'[c].players[1] = rooms[c].players[1]
                  /\ rooms'[c].players[2].name = form[t].name
                  /\ rooms'[c].players[2].score = 0
         /\ pc[t] = "join_ok" =>
               /\ rooms' = rooms
               /\ \/ pc'[t] = "join_ok" /\ result'[t] = NoResult
                  \/ pc'[t] = "done" /\ result'[t] = RedirectPlay(c)]_vars

\* a join has succeeded and its room reads [host, joiner] with two
\* different names
C6_Witness ==
    \E t \in Tasks :
        /\ pc[t] = "done" /\ IsJoin(t)
        /\ result[t] = RedirectPlay(form[t].code)
        /\ Len(rooms[form[t].code].players) = 2
        /\ rooms[form[t].code].players[2].name = form[t].name
        /\ rooms[form[t].code].players[1].name # form[t].name

CreateReturns(t) == pc[t] = "create_unlock" /\ pc'[t] = "done"

\* C7: at the moment create returns code c, a lookup of c yields a room
\* with exactly one player, named host_name with score 0, and question
\* index 0.
C7_CreateThenGet ==
    [][\A t \in Tasks :
         CreateReturns(t) =>
            LET got == MapGet(rooms', result'[t].code)
            IN /\ got # NoRoom
               /\ Len(got.players) = 1
               /\ got.players[1].name = form[t].host_name
               /\ got.players[1].score = 0
               /\ got.current_question_index = 0
               /\ PlayView(rooms', result'[t].code).players = <<form[t].host_name>>]_vars

\* a create later than the first request has returned and its host heads
\* the room stored under the returned code
C7_Witness ==
    \E t \in Tasks :
        /\ pc[t] = "done" /\ IsCreate(t)
        /\ ContainsKey(rooms, result[t].code)
        /\ rooms[result[t].code].players[1].name = form[t].host_name
        /\ rooms[result[t].code].players[1].id > 1

\* C8: the room stored under key k has code k, and the code a create
\* returned is a key whose room carries that same code.
C8_CodeEqualsKey ==
    /\ \A k \in DOMAIN rooms : rooms[k].code = k
    /\ \A t \in Tasks :
          (pc[t] = "done" /\ IsCreate(t)) =>
             /\ MapGet(rooms, result[t].code) # NoRoom
             /\ MapGet(rooms, result[t].code).code = result[t].code
             /\ PlayView(rooms, result[t].code).code = result[t].code

\* a create has returned and two rooms are stored
C8_Witness ==
    /\ Cardinality(DOMAIN rooms) = 2
    /\ \E t \in Tasks : pc[t] = "done" /\ IsCreate(t)

\* C9 (as claimed): a create whose generated code collides with a key of
\* the registry leaves the registry unchanged and returns
\* CodeGenerationExhausted.
C9_CollisionIsRefused ==
    [][\A t \in Tasks :
         (pc[t] = "create_insert" /\ ContainsKey(rooms, code[t])) =>
            /\ rooms' = rooms
            /\ pc'[t] # pc[t] =>
                  /\ pc'[t] = "done"
                  /\ result'[t] = CodeGenerationExhausted]_vars

\* C10 (as claimed): once a room holds 2 players it holds the same 2
\* players in the same order in every later state.
C10_MembershipFrozen ==
    [][\A c \in DOMAIN rooms :
         Len(rooms[c].players) = 2 =>
            ContainsKey(rooms', c) /\ rooms'[c].players = rooms[c].players]_vars

\* C11: the key set only grows: a key of one state is a key of the next,
\* a new key appears only in the insert step of a create, and no step of a
\* join, play or result changes the key set.
C11_KeysAppendOnly ==
    [][/\ DOMAIN rooms \subseteq DOMAIN rooms'
       /\ DOMAIN rooms' # DOMAIN rooms =>
             \E t \in Tasks : CreateInserts(t) /\ DOMAIN rooms' = DOMAIN rooms \cup {code[t]}
       /\ \A t \in Tasks :
             (form[t].kind \in {"join", "play", "result"} /\ pc'[t] # pc[t]) =>
                DOMAIN rooms' = DOMAIN rooms]_vars

\* two keys are stored, and a join of an absent code and a create have
\* returned
C11_Witness ==
    /\ Cardinality(DOMAIN rooms) = 2
    /\ \E t \in Tasks :
          /\ pc[t] = "done" /\ IsJoin(t)
          /\ result[t] = RedirectJoin(form[t].code)
    /\ \E t \in Tasks : pc[t] = "done" /\ IsCreate(t)

IsGet(t) == form[t].kind \in {"play", "result"}

InGet(t) == pc[t] \in {"play_lock", "play_render", "result_lock", "result_render"}

\* C12: from the start of a play or result lookup to its return the
\* lookup's own steps leave the registry unchanged, nothing changes it while
\* the read guard is held, and the lookup returns a rendered view, which for
\* an absent code is the not-found view (no entry created, no error).
C12_GetReadOnly ==
    [][\A t \in Tasks :
         LET c == form[t].code IN
         /\ (InGet(t) /\ pc'[t] # pc[t]) => rooms' = rooms
         /\ pc[t] \in {"play_render", "result_render"} =>
               /\ rooms' = rooms
               /\ pc'[t] \in {pc[t], "done"}
               /\ pc'[t] = "done" =>
                     /\ result'[t].kind = "template"
                     /\ ~ContainsKey(rooms, c) =>
                           /\ ~ContainsKey(rooms', c)
                           /\ pc[t] = "play_render" =>
                                 result'[t] = PlayTemplate(c, <<>>, "Room not found.")
                           /\ pc[t] = "result_render" =>
                                 result'[t] = ResultTemplate(c, 0, "Room not found.")]_vars

\* a play lookup of an absent code and a result lookup of a present code
\* have both returned
C12_Witness ==
    /\ \E t \in Tasks :
          /\ pc[t] = "done" /\ form[t].kind = "play"
          /\ ~ContainsKey(rooms, form[t].code)
          /\ result[t].question_placeholder = "Room not found."
    /\ \E t \in Tasks :
          /\ pc[t] = "done" /\ form[t].kind = "result"
          /\ ContainsKey(rooms, form[t].code)
          /\ result[t].score > 0

WriteSection(t) ==
    pc[t] \in {"create_insert", "create_unlock", "join_lookup", "join_check", "join_ok"}

ReadSection(t) == pc[t] \in {"play_render", "result_render"}

\* C14: at most one task holds the lock in write mode, none holds it in
\* read mode while a writer holds it, and a task is at a position where it
\* reads or writes the map exactly when it holds the corresponding mode:
\* create from its insert to its release, join from its lookup to its
\* return, play and result while rendering.
C14_ReadersWriter ==
    /\ Cardinality(writers) <= 1
    /\ writers # {} => readers = {}
    /\ \A t \in Tasks :
          /\ WriteSection(t) <=> t \in writers
          /\ ReadSection(t) <=> t \in readers

\* two lookups hold the lock in read mode at the same time
C14_Witness ==
    /\ Cardinality(readers) >= 2
    /\ writers = {}

\* C16: the step a join takes out of its lookup and out of its capacity
\* test is decided by the registry as it stands under the write guard,
\* which no other task changes meanwhile: absent code <=> return with the
\* redirect to the join page; present with 2 players <=> return with
\* BadRequest; present with fewer than 2 <=> push, then return with the
\* redirect to play. The three results are pairwise different values.
C16_JoinOutcomes ==
    [][\A t \in Tasks :
         LET c == form[t].code
             notFound == pc'[t] = "done" /\ result'[t] = RedirectJoin(c)
             full == pc'[t] = "done" /\ result'[t] = BadRequest
             ok == pc'[t] = "done" /\ result'[t] = RedirectPlay(c)
         IN
         /\ (InJoinSection(t) /\ pc'[t] = pc[t]) => rooms' = rooms
         /\ (InJoinSection(t) /\ pc'[t] # pc[t]) =>
               /\ notFound <=> (pc[t] = "join_lookup" /\ ~ContainsKey(rooms, c))
               /\ pc'[t] = "join_check" <=> (pc[t] = "join_lookup" /\ ContainsKey(rooms, c))
               /\ full <=> (pc[t] = "join_check" /\ Len(rooms[c].players) = 2)
               /\ pc'[t] = "join_ok" <=> (pc[t] = "join_check" /\ Len(rooms[c].players) < 2)
               /\ ok <=> pc[t] = "join_ok"
               /\ pc'[t] = "done" => (notFound \/ full \/ ok)
               /\ ~(notFound /\ full) /\ ~(notFound /\ ok) /\ ~(full /\ ok)]_vars

\* the two tasks have returned from joins with different failures: one
\* RoomFull, one RoomNotFound
C16_Witness ==
    /\ \E t \in Tasks : pc[t] = "done" /\ IsJoin(t) /\ result[t] = BadRequest
    /\ \E t \in Tasks :
          pc[t] = "done" /\ IsJoin(t) /\ result[t] = RedirectJoin(form[t].code)

\* C17: every stored room holds 1 or 2 players; the room a create inserts
\* holds exactly the host built from that create's host_name; every other
\* step keeps each room's first player.
C17_HostFirst ==
    [][\A c \in DOMAIN rooms' :
         /\ Len(rooms'[c].players) \in 1..2
         /\ IF \E t \in Tasks : CreateInserts(t) /\ code[t] = c
            THEN \E t \in Tasks :
                    /\ CreateInserts(t) /\ code[t] = c
                    /\ Len(rooms'[c].players) = 1
                    /\ rooms'[c].players[1] = room[t].players[1]
                    /\ rooms'[c].players[1].name = form[t].host_name
            ELSE /\ ContainsKey(rooms, c)
                 /\ rooms'[c].players[1] = rooms[c].players[1]]_vars

\* a room holds its host and a joiner of another name, the host first
C17_Witness ==
    \E c \in DOMAIN rooms :
        /\ Len(rooms[c].players) = 2
        /\ rooms[c].players[1].id < rooms[c].players[2].id
        /\ rooms[c].players[1].name # rooms[c].players[2].name

\* C18: for every stored room the result view shows score 42 and 'Nice
\* Try' with 1 player, 84 and 'Good Match' with 2 players; for an absent
\* code score 0 and 'Room not found.'; a returned result view is one of
\* these three, never 'Perfect Match'.
C18_ResultScores ==
    /\ \A c \in DOMAIN rooms :
          ResultView(rooms, c) =
             IF Len(rooms[c].players) = 1
             THEN ResultTemplate(c, 42, "Nice Try")
             ELSE ResultTemplate(c, 84, "Good Match")
    /\ \A c \in FormCodes \ DOMAIN rooms :
          ResultView(rooms, c) = ResultTemplate(c, 0, "Room not found.")
    /\ \A t \in Tasks :
          (pc[t] = "done" /\ form[t].kind = "result") =>
             /\ <<result[t].score, result[t].message>> \in
                   {<<42, "Nice Try">>, <<84, "Good Match">>, <<0, "Room not found.">>}
             /\ result[t].score < 85

\* result views of a 2-player room and of an absent code have returned
C18_Witness ==
    /\ \E t \in Tasks :
          /\ pc[t] = "done" /\ form[t].kind = "result"
          /\ result[t].score = 84
    /\ \E t \in Tasks :
          /\ pc[t] = "done" /\ form[t].kind = "result"
          /\ result[t].score = 0

CodeChars == Range(UpperCase) \cup Range(Digits)

\* C13: whatever stream the random source yields, the generated code has
\* exactly 6 characters, each an uppercase ASCII letter or a digit.
C13_CodeFormat ==
    \A t \in Tasks :
        pc[t] = "generated" =>
           /\ Len(code[t]) = 6
           /\ \A i \in 1..Len(code[t]) : code[t][i] \in CodeChars

\* a code has been generated from a stream that holds a lowercase letter
C13_Witness ==
    \E t \in Tasks :
        /\ pc[t] = "generated"
        /\ \E i \in 1..CODE_LEN : form[t].stream[i] = "a" /\ code[t][i] = "A"
        /\ \E i \in 1..CODE_LEN : form[t].stream[i] = "7"

Holds(t) == t \in writers \cup readers

\* C15: every request that has not yet returned eventually returns with
\* its lock released, whatever branch it takes; in particular no task waits
\* for the lock forever.
C15_NoHang ==
    \A t \in Tasks : (pc[t] # "done") ~> (pc[t] = "done" /\ ~Holds(t))

\* all requests have returned, one of them a join refused by the full
\* room, and the lock is free
C15_Witness ==
    /\ \A t \in Tasks : pc[t] = "done"
    /\ \E t \in Tasks : IsJoin(t) /\ result[t] = BadRequest
    /\ writers = {} /\ readers = {}

TypeOK ==
    /\ DOMAIN rooms \subseteq GenCodes
    /\ writers \subseteq Tasks
    /\ readers \subseteq Tasks
    /\ started \in 0..MaxRequests

====
